---- MODULE Spec2Model ----
(***************************************************************************)
(* Booking store and request handlers of the restaurant booking backend    *)
(* (backend/routes/bookings.js) together with the table configuration and  *)
(* the availability function of the database schema (database/schema.sql). *)
(*                                                                         *)
(* Every Express handler of bookings.js is synchronous: it runs from its   *)
(* first line to its response without yielding, so concurrent requests are *)
(* handled one after the other in some order.  One action models one whole *)
(* handler; `request` and `response` hold the request handled last and the *)
(* response sent for it.                                                   *)
(*                                                                         *)
(* An absent JSON property is an absent record field: a request body, a    *)
(* booking object and a response carry exactly the fields the JavaScript   *)
(* objects carry.                                                          *)
(***************************************************************************)
EXTENDS Integers, Sequences, FiniteSets, TLC

VARIABLES bookings, nextId, request, response

vars == <<bookings, nextId, request, response>>

(***************************************************************************)
(* Bounds and input sets                                                   *)
(***************************************************************************)

\* largest id the counter hands out in the model (nextId++ is unbounded)
MaxId == 2

\* calendar days in calendar order; the server clock stands at "today"
CalendarDates == <<"yesterday", "today">>

CURRENT_DATE == "today"

Dates == {CalendarDates[i] : i \in DOMAIN CalendarDates}

Times == {"19:00", "20:00"}

\* value of new Date().toISOString(): the model has one clock reading
Now == "now"

\* the request of the tests' validBooking, for a party only table T08 seats
validBooking ==
    [date |-> "today", time |-> "19:00", guests |-> 8, name |-> "A",
     email |-> "a@b.com", phone |-> "+1"]

BodyFields == {"date", "time", "guests", "name", "email", "phone"}

Without(body, f) == [g \in (DOMAIN body) \ {f} |-> body[g]]

\* request bodies sent to POST /: the valid one, and the valid one with one
\* field changed or dropped, and one body breaking two rules at once
PostBodies ==
    {validBooking}
    \cup {[validBooking EXCEPT !.guests = g] : g \in {0, 1, 10, 11}}
    \cup {[validBooking EXCEPT !.date = "yesterday"]}
    \cup {[validBooking EXCEPT !.email = "invalid-email"]}
    \cup {Without(validBooking, f) : f \in BodyFields}
    \cup {Without([validBooking EXCEPT !.guests = 11], "name")}

StatusValues == {"pending", "confirmed", "cancelled", "completed", "no_show"}

\* request bodies sent to PUT /:id
PutBodies ==
    {[status |-> s] : s \in StatusValues \cup {"bogus"}}
    \cup {[guests |-> 11, time |-> "20:00"], [time |-> "20:00"]}

\* the :id path parameter: decimal text of a number, or other text
IdParams ==
    {[text |-> "digits", n |-> i] : i \in 1..MaxId}
    \cup {[text |-> "invalid"]}

\* query strings of GET /check/availability
Queries ==
    {[date |-> d, time |-> t] : d \in Dates, t \in Times}
    \cup {[date |-> "today"], [time |-> "19:00"]}

(***************************************************************************)
(* database/schema.sql: the tables of the restaurant                       *)
(***************************************************************************)

\* INSERT INTO tables: capacity of T01..T15, indexed by the SERIAL id
capacity == <<2, 2, 4, 4, 4, 6, 6, 8, 4, 4, 6, 2, 2, 4, 4>>

TableIds == DOMAIN capacity

\* tables.is_available BOOLEAN DEFAULT true; the inserts do not set it
is_available == [t \in TableIds |-> TRUE]

\* bookings.table_id, NULL where the row (the booking object) has none
NoTable == 0

table_id(b) == IF "table_id" \in DOMAIN b THEN b.table_id ELSE NoTable

ActiveStatuses == {"confirmed", "pending"}

\* check_table_availability: the rows of its SELECT, as a set of table ids
check_table_availability(rows, p_date, p_time, p_guests) ==
    {t \in TableIds :
        /\ capacity[t] >= p_guests
        /\ is_available[t]
        /\ ~ \E i \in DOMAIN rows :
               /\ table_id(rows[i]) = t
               /\ rows[i].date = p_date
               /\ rows[i].time = p_time
               /\ rows[i].status \in ActiveStatuses}

(***************************************************************************)
(* backend/routes/bookings.js                                              *)
(***************************************************************************)

MissingFieldsMessage == "Vsichki poleta sa zadalzhitelni"
GuestsMessage == "Broyat gosti tryabva da e mezhdu 1 i 10"
CreatedMessage == "Rezervatsiyata e sazdadena uspeshno"
NotFoundMessage == "Rezervatsiyata ne e namerena"
UpdatedMessage == "Rezervatsiyata e aktualizirana"
DeletedMessage == "Rezervatsiyata e iztrita uspeshno"
QueryMessage == "Data i chas sa zadalzhitelni"

MinGuests == 1
MaxGuests == 10
totalTables == 15

\* JavaScript truthiness of body[f]: undefined, 0 and "" are falsy
Truthy(body, f) ==
    /\ f \in DOMAIN body
    /\ IF f = "guests" THEN body[f] # 0 ELSE body[f] # ""

\* parseInt(req.params.id) === b.id; parseInt of non-numeric text is NaN,
\* which equals no id
IdMatches(param, b) == param.text = "digits" /\ b.id = param.n

\* bookings.findIndex(b => b.id === parseInt(req.params.id)); 0 for -1
findIndex(param) ==
    IF \E i \in DOMAIN bookings : IdMatches(param, bookings[i])
    THEN CHOOSE i \in DOMAIN bookings :
            /\ IdMatches(param, bookings[i])
            /\ \A j \in DOMAIN bookings : IdMatches(param, bookings[j]) => i <= j
    ELSE 0

Respond(req, res) ==
    /\ request' = req
    /\ response' = res

Init ==
    /\ bookings = <<>>
    /\ nextId = 1
    /\ request = [op |-> "none"]
    /\ response = [status |-> 0]

\* router.get('/')
GetAll ==
    /\ Respond([op |-> "GET /"],
               [status |-> 200, success |-> TRUE, data |-> bookings,
                count |-> Len(bookings)])
    /\ UNCHANGED <<bookings, nextId>>

\* router.get('/:id')
GetById(param) ==
    LET i == findIndex(param) IN
    /\ IF i = 0
       THEN Respond([op |-> "GET /:id", id |-> param],
                    [status |-> 404, success |-> FALSE,
                     message |-> NotFoundMessage])
       ELSE Respond([op |-> "GET /:id", id |-> param],
                    [status |-> 200, success |-> TRUE, data |-> bookings[i]])
    /\ UNCHANGED <<bookings, nextId>>

\* the object literal with the id taken from the length of the array: the
\* id of a deleted booking is handed out again
newBooking_idFromLength(body) ==
    [id |-> Len(bookings) + 1, date |-> body.date, time |-> body.time,
     guests |-> body.guests, name |-> body.name, email |-> body.email,
     phone |-> body.phone, status |-> "confirmed", createdAt |-> Now]

\* the object literal of router.post('/')
newBooking(body) ==
    [id |-> nextId, date |-> body.date, time |-> body.time,
     guests |-> body.guests, name |-> body.name, email |-> body.email,
     phone |-> body.phone, status |-> "confirmed", createdAt |-> Now]

\* router.post('/') with the id taken before the body is validated: a
\* refused request uses up an id
Post_idBeforeValidation(body) ==
    LET req == [op |-> "POST /", body |-> body] IN
    /\ nextId <= MaxId
    /\ nextId' = nextId + 1
    /\ IF \E f \in BodyFields : ~ Truthy(body, f)
       THEN /\ Respond(req, [status |-> 400, success |-> FALSE,
                             message |-> MissingFieldsMessage])
            /\ UNCHANGED bookings
       ELSE IF body.guests < MinGuests \/ body.guests > MaxGuests
       THEN /\ Respond(req, [status |-> 400, success |-> FALSE,
                             message |-> GuestsMessage])
            /\ UNCHANGED bookings
       ELSE /\ bookings' = Append(bookings, newBooking(body))
            /\ Respond(req, [status |-> 201, success |-> TRUE,
                             message |-> CreatedMessage,
                             data |-> newBooking(body)])

\* router.post('/') without the return of the party size branch: the 400 is
\* sent, the handler runs on and stores the booking
Post_guestsFallsThrough(body) ==
    LET req == [op |-> "POST /", body |-> body] IN
    IF \E f \in BodyFields : ~ Truthy(body, f)
    THEN /\ Respond(req, [status |-> 400, success |-> FALSE,
                          message |-> MissingFieldsMessage])
         /\ UNCHANGED <<bookings, nextId>>
    ELSE /\ nextId <= MaxId
         /\ nextId' = nextId + 1
         /\ bookings' = Append(bookings, newBooking(body))
         /\ IF body.guests < MinGuests \/ body.guests > MaxGuests
            THEN Respond(req, [status |-> 400, success |-> FALSE,
                               message |-> GuestsMessage])
            ELSE Respond(req, [status |-> 201, success |-> TRUE,
                               message |-> CreatedMessage,
                               data |-> newBooking(body)])

\* router.post('/') with id: nextId in place of id: nextId++: the counter
\* stands still and every booking gets the same id
Post_noIncrement(body) ==
    LET req == [op |-> "POST /", body |-> body] IN
    IF \E f \in BodyFields : ~ Truthy(body, f)
    THEN /\ Respond(req, [status |-> 400, success |-> FALSE,
                          message |-> MissingFieldsMessage])
         /\ UNCHANGED <<bookings, nextId>>
    ELSE IF body.guests < MinGuests \/ body.guests > MaxGuests
    THEN /\ Respond(req, [status |-> 400, success |-> FALSE,
                          message |-> GuestsMessage])
         /\ UNCHANGED <<bookings, nextId>>
    ELSE /\ Len(bookings) < MaxId
         /\ bookings' = Append(bookings, newBooking(body))
         /\ Respond(req, [status |-> 201, success |-> TRUE,
                          message |-> CreatedMessage,
                          data |-> newBooking(body)])
         /\ UNCHANGED nextId

\* router.post('/'), with the counter handing out the ids up to limit
PostUpTo(body, limit) ==
    LET req == [op |-> "POST /", body |-> body] IN
    IF \E f \in BodyFields : ~ Truthy(body, f)
    THEN /\ Respond(req, [status |-> 400, success |-> FALSE,
                          message |-> MissingFieldsMessage])
         /\ UNCHANGED <<bookings, nextId>>
    ELSE IF body.guests < MinGuests \/ body.guests > MaxGuests
    THEN /\ Respond(req, [status |-> 400, success |-> FALSE,
                          message |-> GuestsMessage])
         /\ UNCHANGED <<bookings, nextId>>
    ELSE /\ nextId <= limit
         /\ nextId' = nextId + 1
         /\ bookings' = Append(bookings, newBooking(body))
         /\ Respond(req, [status |-> 201, success |-> TRUE,
                          message |-> CreatedMessage,
                          data |-> newBooking(body)])

\* router.post('/')
Post(body) == PostUpTo(body, MaxId)

PutFields == BodyFields \cup {"status"}

\* the assignments of router.put('/:id') followed by a reset of the status:
\* a patch without a status confirms the booking again
updated_resetsStatus(b, body) ==
    [updatedAt |-> Now]
    @@ [f \in {g \in PutFields : Truthy(body, g)} |-> body[f]]
    @@ [status |-> "confirmed"]
    @@ b

\* the booking after the assignments of router.put('/:id')
updated(b, body) ==
    [updatedAt |-> Now]
    @@ [f \in {g \in PutFields : Truthy(body, g)} |-> body[f]]
    @@ b

\* router.put('/:id')
Put(param, body) ==
    LET i == findIndex(param)
        req == [op |-> "PUT /:id", id |-> param, body |-> body] IN
    IF i = 0
    THEN /\ Respond(req, [status |-> 404, success |-> FALSE,
                          message |-> NotFoundMessage])
         /\ UNCHANGED <<bookings, nextId>>
    ELSE /\ bookings' = [bookings EXCEPT ![i] = updated(bookings[i], body)]
         /\ Respond(req, [status |-> 200, success |-> TRUE,
                          message |-> UpdatedMessage,
                          data |-> updated(bookings[i], body)])
         /\ UNCHANGED nextId

\* bookings.splice(index, 1)
splice(seq, index) ==
    [k \in 1..(Len(seq) - 1) |-> IF k < index THEN seq[k] ELSE seq[k + 1]]

\* router.delete('/:id') without the test for index -1: splice(-1, 1)
\* removes the last booking
Delete_noNotFoundTest(param) ==
    LET i == findIndex(param)
        req == [op |-> "DELETE /:id", id |-> param] IN
    /\ bookings' = IF i # 0 THEN splice(bookings, i)
                   ELSE IF bookings = <<>> THEN bookings
                   ELSE splice(bookings, Len(bookings))
    /\ Respond(req, [status |-> 200, success |-> TRUE,
                     message |-> DeletedMessage])
    /\ UNCHANGED nextId

\* router.delete('/:id')
Delete(param) ==
    LET i == findIndex(param)
        req == [op |-> "DELETE /:id", id |-> param] IN
    IF i = 0
    THEN /\ Respond(req, [status |-> 404, success |-> FALSE,
                          message |-> NotFoundMessage])
         /\ UNCHANGED <<bookings, nextId>>
    ELSE /\ bookings' = splice(bookings, i)
         /\ Respond(req, [status |-> 200, success |-> TRUE,
                          message |-> DeletedMessage])
         /\ UNCHANGED nextId

\* the filter without its status test: a cancelled booking keeps its table
existingBookings_anyStatus(date, time) ==
    {i \in DOMAIN bookings :
        /\ bookings[i].date = date
        /\ bookings[i].time = time}

\* bookings.filter(b => b.date === date && b.time === time &&
\*                      b.status === 'confirmed')
existingBookings(date, time) ==
    {i \in DOMAIN bookings :
        /\ bookings[i].date = date
        /\ bookings[i].time = time
        /\ bookings[i].status = "confirmed"}

\* the data of the availability response
availability(date, time) ==
    LET occupiedTables == Cardinality(existingBookings(date, time))
        availableTables == totalTables - occupiedTables IN
    [date |-> date, time |-> time, totalTables |-> totalTables,
     occupiedTables |-> occupiedTables, availableTables |-> availableTables,
     isAvailable |-> availableTables > 0]

\* router.get('/check/availability') that holds a table of an open slot for
\* the caller: the check stores a pending booking
CheckAvailability_holdsTable(query) ==
    LET req == [op |-> "GET /check/availability", query |-> query] IN
    IF ~ Truthy(query, "date") \/ ~ Truthy(query, "time")
    THEN /\ Respond(req, [status |-> 400, success |-> FALSE,
                          message |-> QueryMessage])
         /\ UNCHANGED <<bookings, nextId>>
    ELSE /\ Respond(req, [status |-> 200, success |-> TRUE,
                          data |-> availability(query.date, query.time)])
         /\ IF availability(query.date, query.time).isAvailable
               /\ nextId <= MaxId
            THEN /\ bookings' =
                      Append(bookings,
                             [newBooking([validBooking EXCEPT
                                             !.date = query.date,
                                             !.time = query.time])
                                 EXCEPT !.status = "pending"])
                 /\ nextId' = nextId + 1
            ELSE UNCHANGED <<bookings, nextId>>

\* router.get('/check/availability')
CheckAvailability(query) ==
    LET req == [op |-> "GET /check/availability", query |-> query] IN
    /\ IF ~ Truthy(query, "date") \/ ~ Truthy(query, "time")
       THEN Respond(req, [status |-> 400, success |-> FALSE,
                          message |-> QueryMessage])
       ELSE Respond(req, [status |-> 200, success |-> TRUE,
                          data |-> availability(query.date, query.time)])
    /\ UNCHANGED <<bookings, nextId>>

Next ==
    \/ GetAll
    \/ \E param \in IdParams : GetById(param)
    \/ \E body \in PostBodies : Post(body)
    \/ \E param \in IdParams, body \in PutBodies : Put(param, body)
    \/ \E param \in IdParams : Delete(param)
    \/ \E query \in Queries : CheckAvailability(query)

Spec == Init /\ [][Next]_vars

\* bookings one slot takes in the full house: one more than totalTables
MaxBookings == 16

\* the first booking of the evening, the one updated and deleted
FirstId == [text |-> "digits", n |-> 1]

\* the router under requests that fill one slot: the same valid booking
\* created again and again, the first booking cancelled, confirmed again
\* or deleted, and availability checks
FullHouseNext ==
    \/ PostUpTo(validBooking, MaxBookings)
    \/ \E s \in {"cancelled", "confirmed"} : Put(FirstId, [status |-> s])
    \/ Delete(FirstId)
    \/ \E query \in Queries : CheckAvailability(query)

FullHouse == Init /\ [][FullHouseNext]_vars

(***************************************************************************)
(* The request validator of the booking service.  Its module               *)
(* (backend/utils/validators) is not among the sources; the tests import   *)
(* validateBookingData from it.  The rules are those of the design.        *)
(***************************************************************************)

DateIndex(d) == CHOOSE i \in DOMAIN CalendarDates : CalendarDates[i] = d

\* d1 is a calendar day strictly before d2
DateBefore(d1, d2) == DateIndex(d1) < DateIndex(d2)

\* the addresses of the input sets that have the shape of an address
WellFormedEmails == {"a@b.com"}

\* the set of rules a creation request violates
validateBookingData(body) ==
    {"MissingField" : f \in {g \in BodyFields : g \notin DOMAIN body}}
    \cup {"InvalidPartySize" : f \in {g \in {"guests"} \cap DOMAIN body :
                                  body[g] < MinGuests \/ body[g] > MaxGuests}}
    \cup {"PastDate" : f \in {g \in {"date"} \cap DOMAIN body :
                                  DateBefore(body[g], CURRENT_DATE)}}
    \cup {"InvalidEmail" : f \in {g \in {"email"} \cap DOMAIN body :
                                  body[g] \notin WellFormedEmails}}

(***************************************************************************)
(* Vocabulary of the properties                                            *)
(***************************************************************************)

\* the bookings of rows that are active at the slot (date, time)
ActiveAt(rows, date, time) ==
    {i \in DOMAIN rows :
        /\ rows[i].date = date
        /\ rows[i].time = time
        /\ rows[i].status \in ActiveStatuses}

\* the tables that seat a party of p: the candidates in an empty store
FittingTables(p) == check_table_availability(<<>>, CURRENT_DATE, "19:00", p)

\* the active bookings at the slot that only a table of capacity >= q seats
NeedAtLeast(rows, date, time, q) ==
    {i \in ActiveAt(rows, date, time) : rows[i].guests >= q}

\* The booking objects carry no table.  Whatever table each active booking
\* of the slot holds (one that seats its party, no table held twice), no
\* table that seats a party of p is left: for some q <= p the bookings that
\* need a table of capacity >= q are as many as those tables.
NoFreeTable(rows, date, time, p) ==
    \E q \in MinGuests..p :
        Cardinality(NeedAtLeast(rows, date, time, q))
            >= Cardinality(FittingTables(q))

\* Whatever table each active booking of the slot holds, a table that seats
\* a party of p is left: there are more such tables than active bookings.
SomeFreeTable(rows, date, time, p) ==
    Cardinality(ActiveAt(rows, date, time)) < Cardinality(FittingTables(p))

\* the response is a refusal for lack of a table: a 400 that is neither of
\* the validation refusals
NoAvailability(res) ==
    /\ res.status = 400
    /\ res.message \notin {MissingFieldsMessage, GuestsMessage}

\* the step handles a creation request that the validator accepts
ValidPost == request'.op = "POST /" /\ validateBookingData(request'.body) = {}

\* the request handled last was a cancellation, answered 200
JustCancelled ==
    /\ request.op = "PUT /:id"
    /\ response.status = 200
    /\ "status" \in DOMAIN request.body
    /\ request.body.status = "cancelled"

\* the status changes the design allows
Transitions ==
    {<<"pending", "confirmed">>, <<"confirmed", "completed">>,
     <<"pending", "cancelled">>, <<"confirmed", "cancelled">>,
     <<"confirmed", "no_show">>}

(***************************************************************************)
(* C1  At most one active (pending or confirmed) booking holds a given     *)
(* table for a given (date, time).  A booking object names no table, so    *)
(* the property is stated for every way of giving the active bookings of a *)
(* slot tables that seat them: the bookings that need a table of capacity  *)
(* >= p are never more than the tables of that capacity (otherwise two of  *)
(* them hold the same table).                                              *)
(***************************************************************************)
C1_OneActiveBookingPerTable ==
    \A d \in Dates, t \in Times, p \in MinGuests..MaxGuests :
        FittingTables(p) # {} =>
            Cardinality(NeedAtLeast(bookings, d, t, p))
                <= Cardinality(FittingTables(p))

(***************************************************************************)
(* C2  Two identical valid creation requests handled one after the other,  *)
(* for a slot with no active booking and a party that exactly one table    *)
(* seats: the first is answered 201, the second is refused with            *)
(* NoAvailability and adds no booking.                                     *)
(***************************************************************************)
C2_ConcurrentIdenticalCreates ==
    [][(/\ request.op = "POST /"
        /\ response.status = 201
        /\ request' = request
        /\ ValidPost
        /\ Cardinality(FittingTables(request.body.guests)) = 1
        /\ ActiveAt(bookings, request.body.date, request.body.time)
              = {Len(bookings)})
       => (/\ NoAvailability(response')
           /\ bookings' = bookings)]_vars

(***************************************************************************)
(* C3  A valid creation request for a slot where every table that seats    *)
(* the party is taken by an active booking is refused with NoAvailability  *)
(* and adds no booking.                                                    *)
(***************************************************************************)
C3_NoAvailabilityWhenFull ==
    [][(/\ ValidPost
        /\ NoFreeTable(bookings, request'.body.date, request'.body.time,
                       request'.body.guests))
       => (/\ NoAvailability(response')
           /\ bookings' = bookings)]_vars

(***************************************************************************)
(* C4  A valid creation request for a slot where a table that seats the    *)
(* party is free succeeds: the booking stored and returned is confirmed    *)
(* and its table seats the party.                                          *)
(***************************************************************************)
C4_CreateAssignsFittingTable ==
    [][(/\ ValidPost
        /\ SomeFreeTable(bookings, request'.body.date, request'.body.time,
                         request'.body.guests))
       => (/\ response'.status = 201
           /\ response'.data.status = "confirmed"
           /\ bookings' = Append(bookings, response'.data)
           /\ table_id(response'.data)
                 \in FittingTables(request'.body.guests))]_vars

(***************************************************************************)
(* C5  The table of a created booking is the first candidate in the order  *)
(* of ascending capacity, ties broken by table id.                         *)
(***************************************************************************)
C5_SmallestFittingTable ==
    [][(ValidPost /\ response'.status = 201)
       => LET held == table_id(response'.data)
              candidates ==
                  check_table_availability(bookings, request'.body.date,
                      request'.body.time, request'.body.guests)
          IN  /\ held \in candidates
              /\ \A u \in candidates :
                    \/ capacity[held] < capacity[u]
                    \/ capacity[held] = capacity[u] /\ held <= u]_vars

(***************************************************************************)
(* C6  The status of a booking changes only along the allowed transitions, *)
(* and an update asking for another change is refused (409) and leaves the *)
(* store as it was.                                                        *)
(***************************************************************************)
C6_StatusTransitions ==
    [][/\ \A i \in DOMAIN bookings, j \in DOMAIN bookings' :
            (/\ bookings[i].id = bookings'[j].id
             /\ bookings[i].status # bookings'[j].status)
            => <<bookings[i].status, bookings'[j].status>> \in Transitions
       /\ (/\ request'.op = "PUT /:id"
           /\ findIndex(request'.id) # 0
           /\ "status" \in DOMAIN request'.body
           /\ request'.body.status # bookings[findIndex(request'.id)].status
           /\ <<bookings[findIndex(request'.id)].status,
                request'.body.status>> \notin Transitions)
          => (response'.status = 409 /\ bookings' = bookings)]_vars

(***************************************************************************)
(* C7  Once a booking is cancelled its slot is released: a creation        *)
(* request for the same slot and party size handled right after the        *)
(* cancellation is answered 201 and stores a confirmed booking, and an     *)
(* availability check of that slot handled right after the cancellation    *)
(* counts the confirmed bookings of the slot other than the cancelled one. *)
(***************************************************************************)
C7_CancelReleasesSlot ==
    [][JustCancelled =>
        LET b == response.data IN
        /\ (/\ request'.op = "POST /"
            /\ BodyFields \subseteq DOMAIN request'.body
            /\ request'.body.date = b.date
            /\ request'.body.time = b.time
            /\ request'.body.guests = b.guests
            /\ b.guests \in MinGuests..MaxGuests)
           => (/\ response'.status = 201
               /\ response'.data.status = "confirmed"
               /\ response'.data.date = b.date
               /\ response'.data.time = b.time
               /\ bookings' = Append(bookings, response'.data))
        /\ (/\ request'.op = "GET /check/availability"
            /\ request'.query = [date |-> b.date, time |-> b.time])
           => (/\ response'.status = 200
               /\ response'.data.occupiedTables =
                     Cardinality({i \in DOMAIN bookings :
                         /\ bookings[i].id # b.id
                         /\ bookings[i].date = b.date
                         /\ bookings[i].time = b.time
                         /\ bookings[i].status = "confirmed"}))]_vars

\* a booking of the only table that seats 8 was cancelled, and the creation
\* request for its slot and party size was answered 201: the store holds
\* the cancelled booking and the new confirmed one
C7_Witness ==
    /\ request.op = "POST /"
    /\ response.status = 201
    /\ Cardinality(FittingTables(response.data.guests)) = 1
    /\ \E i \in DOMAIN bookings :
          /\ bookings[i].status = "cancelled"
          /\ bookings[i].date = response.data.date
          /\ bookings[i].time = response.data.time
          /\ bookings[i].guests = response.data.guests
    /\ ActiveAt(bookings, response.data.date, response.data.time)
          = {Len(bookings)}

(***************************************************************************)
(* C8  Cancelling an existing booking sets its status to cancelled and     *)
(* stamps its cancellation timestamp; the booking stays in the store and   *)
(* every other booking is unchanged.                                       *)
(***************************************************************************)
C8_CancelStampsAndKeeps ==
    [][(/\ request'.op = "PUT /:id"
        /\ request'.body = [status |-> "cancelled"]
        /\ findIndex(request'.id) # 0)
       => LET i == findIndex(request'.id) IN
          /\ Len(bookings') = Len(bookings)
          /\ bookings'[i].id = bookings[i].id
          /\ bookings'[i].status = "cancelled"
          /\ {"cancelledAt", "cancelled_at"} \cap DOMAIN bookings'[i] # {}
          /\ \A j \in DOMAIN bookings : j # i => bookings'[j] = bookings[j]]_vars

(***************************************************************************)
(* C9  A creation request with party size 0 or 11 (every other field       *)
(* present) is refused with the guest-count message and adds no booking;   *)
(* one with party size 1 or 10 is not refused for its party size.          *)
(***************************************************************************)
C9_PartySizeBounds ==
    [][(/\ request'.op = "POST /"
        /\ BodyFields \subseteq DOMAIN request'.body)
       => /\ request'.body.guests \in {MinGuests - 1, MaxGuests + 1}
             => (/\ response'.status = 400
                 /\ response'.message = GuestsMessage
                 /\ bookings' = bookings)
          /\ request'.body.guests \in {MinGuests, MaxGuests}
             => (response'.status = 400 => response'.message # GuestsMessage)]_vars

(***************************************************************************)
(* C10  A creation request dated before the current server date is refused *)
(* (400) and adds no booking; a request dated today is not refused for its *)
(* date.                                                                   *)
(***************************************************************************)
C10_PastDateRejected ==
    [][(/\ request'.op = "POST /"
        /\ "date" \in DOMAIN request'.body)
       => /\ DateBefore(request'.body.date, CURRENT_DATE)
             => (/\ response'.status = 400
                 /\ bookings' = bookings)
          /\ (/\ request'.body.date = CURRENT_DATE
              /\ validateBookingData(request'.body) = {})
             => response'.status = 201]_vars

\* the validation rules a refusal reports, read off its message
RulesReported(res) ==
    IF "message" \notin DOMAIN res THEN {}
    ELSE IF res.message = MissingFieldsMessage THEN {"MissingField"}
    ELSE IF res.message = GuestsMessage THEN {"InvalidPartySize"}
    ELSE {}

(***************************************************************************)
(* C11  A creation request whose email has not the shape of an address     *)
(* (every field present) is refused with a 400 and adds no booking.        *)
(***************************************************************************)
C11_InvalidEmailRejected ==
    [][(/\ request'.op = "POST /"
        /\ BodyFields \subseteq DOMAIN request'.body
        /\ request'.body.email \notin WellFormedEmails)
       => (/\ response'.status = 400
           /\ bookings' = bookings)]_vars

(***************************************************************************)
(* C12  A creation request that lacks date, time, party size, name, email  *)
(* or phone is refused with a 400 and the required-fields message, and the *)
(* refusal leaves the booking store and the id counter unchanged.          *)
(***************************************************************************)
C12_MissingFieldRejected ==
    [][(/\ request'.op = "POST /"
        /\ ~ (BodyFields \subseteq DOMAIN request'.body))
       => (/\ response'.status = 400
           /\ response'.success = FALSE
           /\ response'.message = MissingFieldsMessage
           /\ bookings' = bookings
           /\ nextId' = nextId)]_vars

\* a request without one of the fields was refused while the store holds a
\* booking and the counter can still hand out an id
C12_Witness ==
    /\ request.op = "POST /"
    /\ \E f \in BodyFields : f \notin DOMAIN request.body
    /\ response.status = 400
    /\ response.message = MissingFieldsMessage
    /\ bookings # <<>>
    /\ nextId <= MaxId

(***************************************************************************)
(* C13  The refusal of a creation request that violates several validation *)
(* rules reports every violated rule, not only the first.                  *)
(***************************************************************************)
C13_AllViolationsReported ==
    [][(/\ request'.op = "POST /"
        /\ Cardinality(validateBookingData(request'.body)) > 1)
       => (/\ response'.status = 400
           /\ validateBookingData(request'.body)
                 \subseteq RulesReported(response'))]_vars

(***************************************************************************)
(* C14  The slot summary of a (date, time) reports as occupiedTables the   *)
(* number of tables with an active (pending or confirmed) booking at that  *)
(* slot, and availableTables = totalTables - occupiedTables.  A booking    *)
(* object names no table, so the number of tables is stated by its bounds: *)
(* none if the slot has no active booking, otherwise at least one and at   *)
(* most one for each active booking.                                       *)
(***************************************************************************)
C14_OccupiedCountsActive ==
    (request.op = "GET /check/availability" /\ response.status = 200)
    => LET active == ActiveAt(bookings, request.query.date, request.query.time)
           occupied == response.data.occupiedTables
       IN  /\ active = {} => occupied = 0
           /\ active # {} => (occupied >= 1 /\ occupied <= Cardinality(active))
           /\ response.data.totalTables = totalTables
           /\ response.data.availableTables = totalTables - occupied

(***************************************************************************)
(* C15  An update that changes the date, time or party size of a booking   *)
(* (to a party size within bounds) when no table that seats the party is   *)
(* free at the new slot, the booking itself left out, is refused with      *)
(* NoAvailability and leaves the store as it was.                          *)
(***************************************************************************)
C15_UpdateRechecksAvailability ==
    [][(/\ request'.op = "PUT /:id"
        /\ findIndex(request'.id) # 0
        /\ LET i == findIndex(request'.id)
               b == bookings[i]
               n == updated(b, request'.body)
           IN  /\ <<n.date, n.time, n.guests>> # <<b.date, b.time, b.guests>>
               /\ n.guests \in MinGuests..MaxGuests
               /\ NoFreeTable(splice(bookings, i), n.date, n.time, n.guests))
       => (/\ NoAvailability(response')
           /\ bookings' = bookings)]_vars

(***************************************************************************)
(* C16  Two identical valid creation requests handled one after the other  *)
(* for a slot with no active booking and a party that two or more tables   *)
(* seat both succeed and hold different tables that seat the party; and a  *)
(* valid creation request is refused with NoAvailability only if no table  *)
(* that seats the party is left.                                           *)
(***************************************************************************)
C16_RetryOnNextCandidate ==
    [][/\ (/\ request.op = "POST /"
           /\ response.status = 201
           /\ request' = request
           /\ ValidPost
           /\ Cardinality(FittingTables(request.body.guests)) >= 2
           /\ ActiveAt(bookings, request.body.date, request.body.time)
                 = {Len(bookings)})
          => (/\ response'.status = 201
              /\ table_id(response.data) \in FittingTables(request.body.guests)
              /\ table_id(response'.data) \in FittingTables(request.body.guests)
              /\ table_id(response'.data) # table_id(response.data))
       /\ (ValidPost /\ NoAvailability(response'))
          => ~ SomeFreeTable(bookings, request'.body.date, request'.body.time,
                             request'.body.guests)]_vars

\* an id the counter has handed out that no stored booking has
Deleted(id) ==
    /\ id < nextId
    /\ \A i \in DOMAIN bookings : bookings[i].id # id

\* the step handles a request addressed to a booking by a numeric id
AddressedById ==
    /\ request'.op \in {"GET /:id", "PUT /:id", "DELETE /:id"}
    /\ request'.id.text = "digits"

(***************************************************************************)
(* C17  Deleting an existing booking removes that booking and no other and *)
(* leaves the others as they were; an id whose booking was deleted is in   *)
(* the store never again, and every later get, update or delete of it is   *)
(* answered 404.                                                           *)
(***************************************************************************)
C17_DeleteIsFinal ==
    [][/\ (request'.op = "DELETE /:id" /\ findIndex(request'.id) # 0)
          => (/\ response'.status = 200
              /\ Len(bookings') = Len(bookings) - 1
              /\ bookings' = SelectSeq(bookings,
                                 LAMBDA b : b.id # request'.id.n))
       /\ \A id \in 1..MaxId :
             Deleted(id)
             => (/\ id < nextId'
                 /\ \A i \in DOMAIN bookings' : bookings'[i].id # id)
       /\ (AddressedById /\ Deleted(request'.id.n))
          => (/\ response'.status = 404
              /\ response'.message = NotFoundMessage
              /\ bookings' = bookings)]_vars

\* a request for the id of a deleted booking was answered 404 while the
\* store holds a booking created after it
C17_Witness ==
    /\ request.op \in {"GET /:id", "PUT /:id", "DELETE /:id"}
    /\ request.id.text = "digits"
    /\ Deleted(request.id.n)
    /\ response.status = 404
    /\ \E i \in DOMAIN bookings : bookings[i].id > request.id.n

(***************************************************************************)
(* C18  A get, update or delete addressed to a numeric id that no stored   *)
(* booking has is answered 404 (not found) and leaves the store and the id *)
(* counter unchanged.                                                      *)
(***************************************************************************)
C18_NotFoundLeavesStore ==
    [][(/\ AddressedById
        /\ \A i \in DOMAIN bookings : bookings[i].id # request'.id.n)
       => (/\ response'.status = 404
           /\ response'.success = FALSE
           /\ response'.message = NotFoundMessage
           /\ bookings' = bookings
           /\ nextId' = nextId)]_vars

\* a delete of an id that no booking has was answered 404 while the store
\* holds a booking
C18_Witness ==
    /\ request.op = "DELETE /:id"
    /\ request.id.text = "digits"
    /\ \A i \in DOMAIN bookings : bookings[i].id # request.id.n
    /\ response.status = 404
    /\ bookings # <<>>

(***************************************************************************)
(* C19  A get whose id is not a number is answered 400; a get of a numeric *)
(* id that no stored booking has is answered 404.                          *)
(***************************************************************************)
C19_InvalidIdRejected ==
    request.op = "GET /:id"
    => /\ request.id.text # "digits" => response.status = 400
       /\ (/\ request.id.text = "digits"
           /\ \A i \in DOMAIN bookings : bookings[i].id # request.id.n)
          => response.status = 404

(***************************************************************************)
(* C20  Every stored booking has a party size in 1..10.                    *)
(***************************************************************************)
C20_PartySizeInBounds ==
    \A i \in DOMAIN bookings : bookings[i].guests \in MinGuests..MaxGuests

(***************************************************************************)
(* C21  The status of every stored booking is one of pending, confirmed,   *)
(* cancelled, completed, no_show: no update stores another value.          *)
(***************************************************************************)
C21_StatusInEnumeration ==
    \A i \in DOMAIN bookings : bookings[i].status \in StatusValues

(***************************************************************************)
(* C22  Every creation request ends with exactly one outcome: success,     *)
(* with exactly one booking added under the next id; or a validation       *)
(* failure or NoAvailability, with the store and the id counter left as    *)
(* they were.  A request answered with a validation or not-found failure   *)
(* is not retried: it changes neither the store nor the id counter.        *)
(***************************************************************************)
C22_OneOutcomePerRequest ==
    [][/\ request'.op = "POST /"
          => \/ /\ response'.status = 201
                /\ bookings' = Append(bookings, response'.data)
                /\ response'.data.id = nextId
                /\ nextId' = nextId + 1
             \/ /\ response'.status = 400
                /\ response'.message \in {MissingFieldsMessage, GuestsMessage}
                /\ bookings' = bookings
                /\ nextId' = nextId
             \/ /\ NoAvailability(response')
                /\ bookings' = bookings
                /\ nextId' = nextId
       /\ response'.status \in {400, 404}
          => (bookings' = bookings /\ nextId' = nextId)]_vars

\* a creation request for a party of 11 ended in the party size failure
\* while the store holds a booking
C22_Witness ==
    /\ request.op = "POST /"
    /\ "guests" \in DOMAIN request.body
    /\ request.body.guests = 11
    /\ response.status = 400
    /\ response.message = GuestsMessage
    /\ Len(bookings) = 1
    /\ nextId = 2

\* the ids of rows are pairwise distinct and were handed out by a counter
\* that now stands at next
IdsHandedOut(rows, next) ==
    /\ \A i \in DOMAIN rows : rows[i].id \in 1..(next - 1)
    /\ \A i, j \in DOMAIN rows : i # j => rows[i].id # rows[j].id

(***************************************************************************)
(* C23  The stored bookings have pairwise distinct ids, all below the id   *)
(* counter.  The counter never goes down; an id that enters the store is   *)
(* the value the counter had, and the counter moves past it, so an id      *)
(* freed by a delete is not handed out again; a rejected create leaves the *)
(* counter as it was.                                                      *)
(***************************************************************************)
C23_IdsUniqueAndFresh ==
    [][/\ IdsHandedOut(bookings, nextId)
       /\ IdsHandedOut(bookings', nextId')
       /\ nextId' >= nextId
       /\ \A i \in DOMAIN bookings' :
             (\A j \in DOMAIN bookings : bookings[j].id # bookings'[i].id)
             => (bookings'[i].id = nextId /\ nextId' = nextId + 1)
       /\ (request'.op = "POST /" /\ response'.status # 201)
          => nextId' = nextId]_vars

\* a create was rejected while id 1 is free after a delete and the store
\* holds the booking created after that delete
C23_Witness ==
    /\ request.op = "POST /"
    /\ response.status = 400
    /\ Deleted(1)
    /\ Len(bookings) = 1
    /\ bookings[1].id = 2
    /\ nextId = 3

(***************************************************************************)
(* C24  An availability check answered 200 reports occupiedTables and      *)
(* availableTables between 0 and totalTables, and isAvailable is true      *)
(* exactly when availableTables is above 0.                                *)
(***************************************************************************)
C24_AvailabilityFiguresInRange ==
    (request.op = "GET /check/availability" /\ response.status = 200)
    => /\ response.data.occupiedTables \in 0..totalTables
       /\ response.data.availableTables \in 0..totalTables
       /\ response.data.isAvailable <=> response.data.availableTables > 0

(***************************************************************************)
(* C25  An update answered 200 changes, in the booking it addresses, only  *)
(* fields present in the patch and the update timestamp: every field the   *)
(* patch does not have keeps its value, among them the id and the creation *)
(* timestamp, no field appears that is neither in the patch nor the update *)
(* timestamp; every other booking and the id counter stay as they were.    *)
(***************************************************************************)
C25_UpdateTouchesPatchOnly ==
    [][(request'.op = "PUT /:id" /\ response'.status = 200)
       => \E i \in DOMAIN bookings :
             LET patch == DOMAIN request'.body \cup {"updatedAt"} IN
             /\ IdMatches(request'.id, bookings[i])
             /\ Len(bookings') = Len(bookings)
             /\ \A j \in DOMAIN bookings : j # i => bookings'[j] = bookings[j]
             /\ \A f \in (DOMAIN bookings[i]) \ patch :
                   /\ f \in DOMAIN bookings'[i]
                   /\ bookings'[i][f] = bookings[i][f]
             /\ DOMAIN bookings'[i] \subseteq (DOMAIN bookings[i]) \cup patch
             /\ bookings'[i].id = bookings[i].id
             /\ bookings'[i].createdAt = bookings[i].createdAt
             /\ response'.data = bookings'[i]
             /\ nextId' = nextId]_vars

\* the second of two bookings, cancelled before, was moved to 20:00 by a
\* patch that has the time only; it is still cancelled and the first booking
\* is at 19:00
C25_Witness ==
    /\ request.op = "PUT /:id"
    /\ DOMAIN request.body = {"time"}
    /\ response.status = 200
    /\ Len(bookings) = 2
    /\ response.data.id = 2
    /\ response.data.time = "20:00"
    /\ response.data.status = "cancelled"
    /\ bookings[1].time = "19:00"
    /\ "updatedAt" \notin DOMAIN bookings[1]

(***************************************************************************)
(* C26  An availability check, with a date and a time or without one of    *)
(* them, is answered 200 or 400 and leaves the booking store and the id    *)
(* counter as they were: it reserves nothing.                              *)
(***************************************************************************)
C26_AvailabilityReadOnly ==
    [][request'.op = "GET /check/availability"
       => /\ response'.status =
                IF {"date", "time"} \subseteq DOMAIN request'.query
                THEN 200 ELSE 400
          /\ bookings' = bookings
          /\ nextId' = nextId]_vars

\* an availability check of a slot with one confirmed booking was answered
\* with an open slot; the store holds that booking and no other and the
\* counter stands at 2
C26_Witness ==
    /\ request.op = "GET /check/availability"
    /\ response.status = 200
    /\ response.data.occupiedTables = 1
    /\ response.data.isAvailable
    /\ Len(bookings) = 1
    /\ bookings[1].status = "confirmed"
    /\ nextId = 2

====
